---- MODULE Spec2Model ----
(***************************************************************************)
(* The MCP integration layer of siyuan-plugin-copilot: the policy engine   *)
(* (policy.ts), the tool cache (cache.ts), the protocol client (client.ts) *)
(* and the tool orchestrator (mcpTools.ts, index.ts).                      *)
(*                                                                         *)
(* mcpPolicy, mcpToolCache and mcpClient are module-level singletons, so   *)
(* their fields are global state.  Every async host operation is a frame   *)
(* with a program counter; an action is the code that runs between two     *)
(* awaits.                                                                 *)
(***************************************************************************)
EXTENDS Integers, Sequences, FiniteSets, TLC

VARIABLES
    policyConfig,   \* mcpPolicy.config            (None | Some(McpConfig))
    toolsCache,     \* mcpToolCache.toolsCache     (None | Some(CacheEntry))
    now,            \* Date.now()
    ticks,          \* how often the clock has advanced
    mcpClient,      \* mcpClient's fields: client, config, transport, isInitialized
    sdkOpen,        \* SDK Client objects created and not yet close()d
    pc,             \* per operation frame: where the async function is suspended
    frame,          \* per operation frame: parameters and locals
    ret,            \* per operation frame: the value returned to the host
    events          \* per operation frame: calls made that leave the orchestrator

vars == <<policyConfig, toolsCache, now, ticks, mcpClient, sdkOpen, pc, frame, ret, events>>

----------------------------------------------------------------------------
(* null | value *)
None == <<>>
Some(x) == <<x>>
Val(o) == o[1]

(* Operation frames.  The sequential specification runs every host        *)
(* operation in frame HostOp, one after the other.                         *)
Ops == {1, 2}
HostOp == CHOOSE o \in Ops : \A p \in Ops : o <= p

(* The clock advances at most MaxTicks times. *)
MaxTicks == 1

----------------------------------------------------------------------------
(* Strings *)
StartsWith(s, p) == Len(s) >= Len(p) /\ SubSeq(s, 1, Len(p)) = p
Slice(s, n) == SubSeq(s, n + 1, Len(s))
Includes(list, x) == \E i \in 1..Len(list) : list[i] = x

(* A text is described by how many one-byte (ASCII) and how many two-byte *)
(* (U+0080..U+07FF) characters it holds.                                   *)
Text(a, w) == [ascii |-> a, wide |-> w]
StringLength(t) == t.ascii + t.wide
(* new Blob([s]).size: the UTF-8 byte length *)
BlobSize(t) == t.ascii + 2 * t.wide
(* JSON.stringify({q: text}) is {"q":"<text>"}: eight ASCII delimiters    *)
(* around the text, whose characters need no escape.                       *)
JSONstringify(args) == Text(6 + args.q.ascii + 2, args.q.wide)
(* JSON.stringify({n: 10n}) is a TypeError: a BigInt has no JSON form.  The *)
(* argument objects are {q: text} and {n: bigint}.                         *)
JSONstringifyThrows(args) == "n" \in DOMAIN args

----------------------------------------------------------------------------
(* policy.ts *)
Allowed == [allowed |-> TRUE, reason |-> ""]
Denied(why) == [allowed |-> FALSE, reason |-> why]

checkToolAccessAllowFirst(config, toolName) ==
    IF config = None \/ ~Val(config).enabled
    THEN Denied("MCP is not enabled")
    ELSE IF Len(Val(config).allowTools) > 0 /\ Includes(Val(config).allowTools, toolName)
    THEN Allowed
    ELSE IF Len(Val(config).denyTools) > 0 /\ Includes(Val(config).denyTools, toolName)
    THEN Denied("Tool '" \o toolName \o "' is in deny list")
    ELSE IF Len(Val(config).allowTools) > 0
    THEN Denied("Tool '" \o toolName \o "' is not in allow list")
    ELSE Allowed

Lower(s) == IF s = "Search" THEN "search" ELSE s
checkToolAccessIgnoreCase(config, toolName) ==
    IF config = None \/ ~Val(config).enabled
    THEN Denied("MCP is not enabled")
    ELSE IF \E i \in 1..Len(Val(config).denyTools) :
                Lower(Val(config).denyTools[i]) = Lower(toolName)
    THEN Denied("Tool '" \o toolName \o "' is in deny list")
    ELSE IF Len(Val(config).allowTools) > 0
            /\ ~\E i \in 1..Len(Val(config).allowTools) :
                Lower(Val(config).allowTools[i]) = Lower(toolName)
    THEN Denied("Tool '" \o toolName \o "' is not in allow list")
    ELSE Allowed

checkToolAccess(config, toolName) ==
    IF config = None \/ ~Val(config).enabled
    THEN Denied("MCP is not enabled")
    ELSE IF Len(Val(config).denyTools) > 0 /\ Includes(Val(config).denyTools, toolName)
    THEN Denied("Tool '" \o toolName \o "' is in deny list")
    ELSE IF Len(Val(config).allowTools) > 0 /\ ~Includes(Val(config).allowTools, toolName)
    THEN Denied("Tool '" \o toolName \o "' is not in allow list")
    ELSE Allowed

SizeReason(size, maxChars) ==
    "Argument size " \o ToString(size) \o " bytes exceeds limit "
        \o ToString(maxChars) \o " bytes"

checkArgumentSizeInChars(config, args) ==
    IF config = None
    THEN Allowed
    ELSE LET size == StringLength(JSONstringify(args))
             maxChars == Val(config).maxArgChars * 1024
         IN  IF size > maxChars THEN Denied(SizeReason(size, maxChars)) ELSE Allowed

(* With a policy configured the arguments are serialised, which may throw *)
checkArgumentSizeThrows(config, args) == config # None /\ JSONstringifyThrows(args)

checkArgumentSize(config, args) ==
    IF config = None
    THEN Allowed
    ELSE LET size == BlobSize(JSONstringify(args))
             maxChars == Val(config).maxArgChars * 1024
         IN  IF size > maxChars THEN Denied(SizeReason(size, maxChars)) ELSE Allowed

----------------------------------------------------------------------------
(* cache.ts *)
defaultTtlMs == 5 * 60 * 1000

(* getTools(): the value returned and the entry left behind *)
getToolsNeverServes(cache, t) == [value |-> None, cache |-> cache]

getTools(cache, t) ==
    IF cache = None
    THEN [value |-> None, cache |-> None]
    ELSE IF t - Val(cache).timestamp > Val(cache).ttl
    THEN [value |-> None, cache |-> None]
    ELSE [value |-> Some(Val(cache).data), cache |-> cache]

(* setTools(tools, ttlMs?): ttlMs is None when the caller leaves it out *)
setTools(tools, ttlMs, t) ==
    Some([data |-> tools, timestamp |-> t,
          ttl |-> IF ttlMs = None \/ Val(ttlMs) = 0 THEN defaultTtlMs ELSE Val(ttlMs)])

invalidate(cache) == None

(* hasValidCache() reads through getTools() and so clears an expired entry *)
hasValidCache(cache, t) ==
    [value |-> getTools(cache, t).value # None, cache |-> getTools(cache, t).cache]

getCacheAge(cache, t) == IF cache = None THEN None ELSE Some(t - Val(cache).timestamp)

forceRefreshKeepsEntry(cache) == cache

forceRefresh(cache) == invalidate(cache)

----------------------------------------------------------------------------
(* Errors: a code and a message *)
createError(code, message) == [code |-> code, message |-> message]
NoError == createError("", "")

----------------------------------------------------------------------------
(* mcpTools.ts: the schema adapter *)
mapMcpTypeToJsonSchemaType(mcpType) ==
    CASE mcpType = "string" -> "string"
      [] mcpType \in {"number", "integer"} -> "number"
      [] mcpType = "boolean" -> "boolean"
      [] mcpType = "array" -> "array"
      [] mcpType = "object" -> "object"
      [] OTHER -> "string"

(* A property value is a JSON object or null (json); reading prop.type of  *)
(* null is a TypeError.                                                    *)
TypeError == createError("TypeError", "Cannot read properties of null")
convertMcpPropertyToJsonSchemaThrows(prop) == prop.json = "null"

(* An absent (undefined) string field is the empty string: both are falsy. *)
(* The other members are absent when the record has no such field; the     *)
(* members the function copies are the ones it names, so a property's      *)
(* "items" and "properties" are not in its result.                         *)
CopiedMembers == {"default", "enum", "minimum", "maximum", "minLength", "maxLength"}
convertMcpPropertyToJsonSchema(prop) ==
    [k \in {"type", "description"} \cup (DOMAIN prop \cap CopiedMembers) |->
        CASE k = "type" ->
                 mapMcpTypeToJsonSchemaType(IF prop.type = "" THEN "string" ELSE prop.type)
          [] k = "description" -> prop.description
          [] OTHER -> prop[k]]

convertMcpSchemaToJsonSchema(inputSchema) ==
    [type |-> "object",
     required |-> IF Len(inputSchema.required) > 0 THEN Some(inputSchema.required) ELSE None,
     properties |-> [i \in 1..Len(inputSchema.properties) |->
                        [key |-> inputSchema.properties[i].key,
                         schema |-> convertMcpPropertyToJsonSchema(inputSchema.properties[i].prop)]]]

convertMcpSchemaToJsonSchemaThrows(inputSchema) ==
    \E i \in 1..Len(inputSchema.properties) :
        convertMcpPropertyToJsonSchemaThrows(inputSchema.properties[i].prop)

(* The placeholder is returned before the schema is looked at. *)
mcpToolToCopilotToolThrows(mcpTool) ==
    mcpTool.name # "" /\ convertMcpSchemaToJsonSchemaThrows(mcpTool.inputSchema)

(* The adapter without the "mcp_" prefix on the tool's name *)
mcpToolToCopilotToolUnprefixed(mcpTool) ==
    [name |-> mcpTool.name,
     description |-> "[MCP] " \o mcpTool.description,
     parameters |-> convertMcpSchemaToJsonSchema(mcpTool.inputSchema)]

(* The value of the returned object's "function" member. *)
mcpToolToCopilotTool(mcpTool) ==
    IF mcpTool.name = ""
    THEN [name |-> "mcp_invalid_tool",
          description |-> "[MCP] Invalid tool - missing name",
          parameters |-> [type |-> "object", required |-> None, properties |-> <<>>]]
    ELSE [name |-> "mcp_" \o mcpTool.name,
          description |-> IF mcpTool.description # ""
                          THEN "[MCP] " \o mcpTool.description
                          ELSE "[MCP] " \o mcpTool.name \o " - No description available",
          parameters |-> convertMcpSchemaToJsonSchema(mcpTool.inputSchema)]

(* tools.map(mcpToolToCopilotTool): the array, unless a conversion throws *)
MapToolsThrows(tools) == \E i \in 1..Len(tools) : mcpToolToCopilotToolThrows(tools[i])
MapTools(tools) == [i \in 1..Len(tools) |-> mcpToolToCopilotTool(tools[i])]

RECURSIVE Join(_)
Join(parts) ==
    IF Len(parts) = 0 THEN ""
    ELSE IF Len(parts) = 1 THEN parts[1]
    ELSE parts[1] \o "\n" \o Join(Tail(parts))

TextParts(content) ==
    LET keep == SelectSeq(content, LAMBDA c : c.type = "text")
    IN  [i \in 1..Len(keep) |-> keep[i].text]

formatMcpResult(result) ==
    LET keep == SelectSeq(result.content, LAMBDA c : c.type = "text" /\ c.text # "")
        joined == Join([i \in 1..Len(keep) |-> keep[i].text])
    IN  IF joined = "" THEN "[No content]" ELSE joined

----------------------------------------------------------------------------
(* client.ts *)

Disconnected == [client |-> 0, config |-> None, transport |-> 0, isInitialized |-> FALSE]

disconnectWithoutClose(mc) == [mcpClient |-> Disconnected, closed |-> {}]

(* disconnect(): the fields afterwards and the SDK clients it called close() on *)
disconnect(mc) ==
    [mcpClient |-> Disconnected,
     closed |-> IF mc.client # 0 THEN {mc.client} ELSE {}]

(* new URL(s) throws for a string without a scheme *)
ParsableUrl(url) == \E i \in 2..Len(url) : SubSeq(url, i, i) = ":"

connectBeginConfigFirst(mc, config, o) ==
    IF config.serverUrl = "" \/ ~ParsableUrl(config.serverUrl)
    THEN [threw |-> TRUE, error |-> createError("InvalidParams", "Server URL is required"),
          mcpClient |-> [mc EXCEPT !.config = Some(config)], created |-> {}, closed |-> {}]
    ELSE [threw |-> FALSE, error |-> NoError,
          mcpClient |-> [mc EXCEPT !.config = Some(config), !.transport = o, !.client = o],
          created |-> {o}, closed |-> {}]

(* connect(config) up to its await: frame o creates SDK client o *)
connectBegin(mc, config, o) ==
    IF config.serverUrl = ""
    THEN [threw |-> TRUE, error |-> createError("InvalidParams", "Server URL is required"),
          mcpClient |-> mc, created |-> {}, closed |-> {}]
    ELSE IF ~ParsableUrl(config.serverUrl)
    THEN LET d == disconnect([mc EXCEPT !.config = Some(config)])
         IN  [threw |-> TRUE, error |-> createError("InternalError", "Invalid URL"),
              mcpClient |-> d.mcpClient, created |-> {}, closed |-> d.closed]
    ELSE [threw |-> FALSE, error |-> NoError,
          mcpClient |-> [mc EXCEPT !.config = Some(config), !.transport = o, !.client = o],
          created |-> {o}, closed |-> {}]

(* listTools(): one entry of the response's tools array as an McpTool.  An *)
(* entry is a JSON object, a number or null (json): reading a member of a  *)
(* number gives undefined, reading a member of null is a TypeError.        *)
McpToolOfThrows(tool) == tool.json = "null"
McpToolOf(tool) ==
    IF tool.json # "object"
    THEN [name |-> "", description |-> "",
          inputSchema |-> [type |-> "object", properties |-> <<>>, required |-> <<>>]]
    ELSE [name |-> tool.name,
          description |-> tool.description,
          inputSchema |-> [type |-> "object",
                           properties |-> IF tool.inputSchema = None THEN <<>>
                                          ELSE Val(tool.inputSchema).properties,
                           required |-> IF tool.inputSchema = None THEN <<>>
                                        ELSE Val(tool.inputSchema).required]]

(* tools.map(tool => ({...})) over the entries of a result *)
McpToolsOfThrows(tools) == \E i \in 1..Len(tools) : McpToolOfThrows(tools[i])
McpToolsOf(tools) == [i \in 1..Len(tools) |-> McpToolOf(tools[i])]

(* listTools() after its fetch, for a response that is not a stream: it    *)
(* never throws, every failure is an empty list                            *)
listToolsResult(response) ==
    IF response.kind = "neterr" THEN <<>>
    ELSE IF ~response.ok THEN <<>>
    ELSE IF McpToolsOfThrows(response.tools) THEN <<>>
    ELSE McpToolsOf(response.tools)

(* buffer.split('\n') *)
RECURSIVE split(_)
split(buffer) ==
    IF \E i \in 1..Len(buffer) : SubSeq(buffer, i, i) = "\n"
    THEN LET i == CHOOSE i \in 1..Len(buffer) :
                     /\ SubSeq(buffer, i, i) = "\n"
                     /\ \A j \in 1..(i - 1) : SubSeq(buffer, j, j) # "\n"
         IN  <<SubSeq(buffer, 1, i - 1)>> \o split(SubSeq(buffer, i + 1, Len(buffer)))
    ELSE <<buffer>>

----------------------------------------------------------------------------
(* The inputs the host and the server can supply *)
McpConfig(enabled, serverUrl, allowTools, denyTools) ==
    [enabled |-> enabled, serverUrl |-> serverUrl, authToken |-> "", transport |-> "http",
     timeoutMs |-> 20000, maxArgChars |-> 1, allowTools |-> allowTools,
     denyTools |-> denyTools, refreshToolsOnStart |-> FALSE]

Lists == {<<>>, <<"search">>}
Configs ==
    {McpConfig(TRUE, "http://a", a, d) : a \in Lists, d \in Lists}
        \cup {McpConfig(FALSE, "http://a", <<>>, d) : d \in Lists}
        \cup {McpConfig(TRUE, u, <<>>, <<>>) : u \in {"", "nourl"}}

ToolNames == {"mcp_search", "search", "mcp_Search", "mcp_fetch"}

(* {q: "x"}; a payload of exactly 1024 bytes; a payload of 1025 bytes that *)
(* is 1024 characters long                                                 *)
ArgsSet == {[q |-> Text(1, 0)], [q |-> Text(1014, 1)], [q |-> Text(1015, 1)]}

SearchTool ==
    [json |-> "object", name |-> "search", description |-> "Search notes",
     inputSchema |-> Some([properties |-> <<[key |-> "q",
                                              prop |-> [json |-> "object",
                                                        type |-> "string",
                                                        description |-> "query"]]>>,
                           required |-> <<"q">>])]
FetchTool == [json |-> "object", name |-> "fetch", description |-> "", inputSchema |-> None]

(* What the fetch of tools/list settles with: a network error, or a        *)
(* response with its status, its content type and its body, which is the   *)
(* tools array of the JSON-RPC result or the chunks of an event stream     *)
NetworkError ==
    [kind |-> "neterr", ok |-> FALSE, contentType |-> "", tools |-> <<>>, chunks |-> <<>>]
JsonResponse(ok, tools) ==
    [kind |-> "http", ok |-> ok, contentType |-> "application/json",
     tools |-> tools, chunks |-> <<>>]
StreamResponse(chunks) ==
    [kind |-> "http", ok |-> TRUE, contentType |-> "text/event-stream",
     tools |-> <<>>, chunks |-> chunks]

ListResponses ==
    {NetworkError,
     JsonResponse(FALSE, <<>>),
     JsonResponse(TRUE, <<>>),
     JsonResponse(TRUE, <<SearchTool, FetchTool>>)}

CallToolResult(isError, content) == [isError |-> isError, content |-> content]
CallResponses ==
    {[kind |-> "neterr", result |-> CallToolResult(FALSE, <<>>)],
     [kind |-> "result", result |-> CallToolResult(FALSE, <<[type |-> "text", text |-> "found"]>>)],
     [kind |-> "result", result |-> CallToolResult(TRUE, <<[type |-> "text", text |-> "boom"]>>)],
     [kind |-> "result", result |-> CallToolResult(TRUE, <<>>)]}

ServerVersion == [name |-> "srv", version |-> "1.0"]

----------------------------------------------------------------------------
(* client.ts listTools(): decoding an event stream *)

(* The JSON-RPC messages a server sends on a stream, as text and as value: *)
(* the tools/list result, and a notification, which holds no result        *)
ResultText == "{\"id\":1,\"result\":{\"tools\":[\"search\",\"fetch\"]}}"
NotificationText == "{\"method\":\"notifications/message\"}"
JsonRpcMessages ==
    {[text |-> ResultText, tools |-> Some(<<SearchTool, FetchTool>>)],
     [text |-> NotificationText, tools |-> None]}

(* JSON.parse(data): a text that is not a whole message is a SyntaxError *)
JSONparse(data) ==
    IF \E m \in JsonRpcMessages : m.text = data
    THEN [threw |-> FALSE, tools |-> (CHOOSE m \in JsonRpcMessages : m.text = data).tools]
    ELSE [threw |-> TRUE, tools |-> None]

(* The for loop over the lines of the buffer: it returns from listTools at *)
(* [DONE] and at the first data line that parses and maps, or falls through *)
RECURSIVE scanLines(_)
scanLines(lines) ==
    IF lines = <<>> THEN [returned |-> FALSE, tools |-> <<>>]
    ELSE IF ~StartsWith(Head(lines), "data: ") THEN scanLines(Tail(lines))
    ELSE LET data == Slice(Head(lines), 6)
             result == JSONparse(data)
         IN  IF data = "[DONE]" THEN [returned |-> TRUE, tools |-> <<>>]
             ELSE IF result.threw THEN scanLines(Tail(lines))
             ELSE IF result.tools = None THEN [returned |-> TRUE, tools |-> <<>>]
             ELSE IF McpToolsOfThrows(Val(result.tools)) THEN scanLines(Tail(lines))
             ELSE [returned |-> TRUE, tools |-> McpToolsOf(Val(result.tools))]

----------------------------------------------------------------------------
(* Frames *)
NewFrame(kind, config, toolName, args) ==
    [kind |-> kind, config |-> config, toolName |-> toolName, args |-> args,
     actualToolName |-> "", accessCheck |-> None, sizeCheck |-> None,
     tools |-> None, reply |-> None, result |-> None, error |-> NoError,
     buffer |-> "", reads |-> 0, afterRefresh |-> FALSE]

CanStart(o) == pc[o] \in {"idle", "done"}

CloseEvents(closed) == IF closed = {} THEN <<>> ELSE <<"close">>

Init ==
    /\ policyConfig = None
    /\ toolsCache = None
    /\ now = 0
    /\ ticks = 0
    /\ mcpClient = Disconnected
    /\ sdkOpen = {}
    /\ pc = [o \in Ops |-> "idle"]
    /\ frame = [o \in Ops |-> NewFrame("none", None, "", None)]
    /\ ret = [o \in Ops |-> None]
    /\ events = [o \in Ops |-> <<>>]

Return(o, value) ==
    /\ pc' = [pc EXCEPT ![o] = "done"]
    /\ ret' = [ret EXCEPT ![o] = Some(value)]

(* The operation's promise rejects: the failure reaches the caller *)
Reject(o, error) == Return(o, [rejected |-> error])

Suspend(o, at) ==
    /\ pc' = [pc EXCEPT ![o] = at]
    /\ ret' = [ret EXCEPT ![o] = None]

(* mcpClient.disconnect() called by frame o *)
Disconnect(o) ==
    LET d == disconnect(mcpClient)
    IN  /\ mcpClient' = d.mcpClient
        /\ sdkOpen' = sdkOpen \ d.closed
        /\ events' = [events EXCEPT ![o] = @ \o CloseEvents(d.closed)]

(* await mcpClient.connect(config) as the first call of frame o, whose     *)
(* events so far are before: the code up to the handshake's await.  The    *)
(* call is the event "connect"; creating the SDK client and sending the    *)
(* initialize request is the event "handshake".                            *)
Connect(o, f, config, before) ==
    LET c == connectBegin(mcpClient, config, o)
    IN  /\ frame' = [frame EXCEPT ![o] = [f EXCEPT !.error = c.error]]
        /\ Suspend(o, IF c.threw THEN "catch" ELSE "handshake")
        /\ events' = [events EXCEPT ![o] =
                         before \o <<"connect">> \o CloseEvents(c.closed)
                                \o (IF c.threw THEN <<>> ELSE <<"handshake">>)]
        /\ mcpClient' = c.mcpClient
        /\ sdkOpen' = (sdkOpen \cup c.created) \ c.closed

----------------------------------------------------------------------------
GetMcpToolsCallCacheFirst(o, config) ==
    LET f == NewFrame("getMcpTools", Some(config), "", None)
        got == getTools(toolsCache, now)
    IN  /\ toolsCache' = got.cache
        /\ IF got.value # None
           THEN /\ frame' = [frame EXCEPT ![o] = f]
                /\ Return(o, [tools |-> MapTools(Val(got.value))])
                /\ events' = [events EXCEPT ![o] = <<"getTools">>]
                /\ UNCHANGED <<policyConfig, mcpClient, sdkOpen>>
           ELSE IF ~config.enabled
           THEN /\ frame' = [frame EXCEPT ![o] = f]
                /\ Return(o, [tools |-> <<>>])
                /\ events' = [events EXCEPT ![o] = <<"getTools">>]
                /\ UNCHANGED <<policyConfig, mcpClient, sdkOpen>>
           ELSE /\ policyConfig' = Some(config)
                /\ Connect(o, f, config, <<"getTools">>)

(* mcpTools.ts getMcpTools(config), up to its first await or its return;   *)
(* the frame notes whether refreshMcp() was the operation before this one  *)
GetMcpToolsCall(o, config) ==
    LET f == [NewFrame("getMcpTools", Some(config), "", None)
                EXCEPT !.afterRefresh = (frame[o].kind = "refreshMcp")]
        got == getTools(toolsCache, now)
    IN  IF ~config.enabled
        THEN /\ frame' = [frame EXCEPT ![o] = f]
             /\ Return(o, [tools |-> <<>>])
             /\ events' = [events EXCEPT ![o] = <<>>]
             /\ UNCHANGED <<policyConfig, toolsCache, mcpClient, sdkOpen>>
        ELSE /\ policyConfig' = Some(config)
             /\ toolsCache' = got.cache
             /\ IF got.value # None
                THEN /\ frame' = [frame EXCEPT ![o] = f]
                     /\ IF MapToolsThrows(Val(got.value))
                        THEN Reject(o, TypeError)
                        ELSE Return(o, [tools |-> MapTools(Val(got.value))])
                     /\ events' = [events EXCEPT ![o] = <<"getTools">>]
                     /\ UNCHANGED <<mcpClient, sdkOpen>>
                ELSE Connect(o, f, config, <<"getTools">>)

GetMcpTools(o, config) ==
    /\ CanStart(o)
    /\ GetMcpToolsCall(o, config)
    /\ UNCHANGED <<now, ticks>>

(* index.ts loadMcpTools(settings), config being getMcpConfigFromSettings(settings): *)
(* its catch block turns a rejection of getMcpTools into an empty list     *)
LoadMcpTools(o, config) ==
    LET got == getTools(toolsCache, now)
    IN  /\ CanStart(o)
        /\ IF ~config.enabled \/ config.serverUrl = ""
           THEN /\ frame' = [frame EXCEPT ![o] =
                                NewFrame("loadMcpTools", Some(config), "", None)]
                /\ Return(o, [tools |-> <<>>])
                /\ events' = [events EXCEPT ![o] = <<>>]
                /\ UNCHANGED <<policyConfig, toolsCache, mcpClient, sdkOpen>>
           ELSE IF got.value # None /\ MapToolsThrows(Val(got.value))
           THEN /\ frame' = [frame EXCEPT ![o] =
                                NewFrame("loadMcpTools", Some(config), "", None)]
                /\ Return(o, [tools |-> <<>>])
                /\ events' = [events EXCEPT ![o] = <<"getTools">>]
                /\ policyConfig' = Some(config)
                /\ toolsCache' = got.cache
                /\ UNCHANGED <<mcpClient, sdkOpen>>
           ELSE GetMcpToolsCall(o, config)
        /\ UNCHANGED <<now, ticks>>

(* client.ts connect(): the handshake await this.client.connect(transport) settles *)
Handshake(o, ok) ==
    /\ pc[o] = "handshake"
    /\ IF ok
       THEN /\ mcpClient' = [mcpClient EXCEPT !.isInitialized = TRUE]
            /\ pc' = [pc EXCEPT ![o] = "connected"]
            /\ UNCHANGED <<sdkOpen, events, frame>>
       ELSE /\ Disconnect(o)
            /\ frame' = [frame EXCEPT ![o].error = createError("InternalError", "handshake failed")]
            /\ pc' = [pc EXCEPT ![o] = "catch"]
    /\ UNCHANGED <<policyConfig, toolsCache, now, ticks, ret>>

(* listTools() without its not-connected check *)
ListToolsUnchecked(o) ==
    /\ pc[o] = "connected"
    /\ frame[o].kind = "getMcpTools"
    /\ events' = [events EXCEPT ![o] = @ \o <<"tools/list">>]
    /\ pc' = [pc EXCEPT ![o] = "fetch"]
    /\ UNCHANGED <<policyConfig, toolsCache, now, ticks, mcpClient, sdkOpen, ret, frame>>

(* client.ts listTools() up to its fetch *)
ListTools(o) ==
    /\ pc[o] = "connected"
    /\ frame[o].kind = "getMcpTools"
    /\ IF mcpClient.client = 0 \/ ~mcpClient.isInitialized
       THEN /\ frame' = [frame EXCEPT ![o].error =
                            createError("InvalidRequest", "Not connected to MCP server")]
            /\ pc' = [pc EXCEPT ![o] = "catch"]
            /\ UNCHANGED events
       ELSE IF mcpClient.config = None
       THEN /\ frame' = [frame EXCEPT ![o].tools = Some(<<>>)]
            /\ pc' = [pc EXCEPT ![o] = "listed"]
            /\ UNCHANGED events
       ELSE /\ events' = [events EXCEPT ![o] = @ \o <<"tools/list">>]
            /\ pc' = [pc EXCEPT ![o] = "fetch"]
            /\ UNCHANGED frame
    /\ UNCHANGED <<policyConfig, toolsCache, now, ticks, mcpClient, sdkOpen, ret>>

(* client.ts listTools() from the fetch's response to its return, or to   *)
(* its first reader.read() when the response is an event stream            *)
ListToolsResponse(o, response) ==
    /\ pc[o] = "fetch"
    /\ IF response.kind = "http" /\ response.ok
            /\ response.contentType = "text/event-stream"
       THEN /\ frame' = [frame EXCEPT ![o].reply = Some(response),
                                       ![o].buffer = "", ![o].reads = 0]
            /\ pc' = [pc EXCEPT ![o] = "reading"]
       ELSE /\ frame' = [frame EXCEPT ![o].reply = Some(response),
                                       ![o].tools = Some(listToolsResult(response))]
            /\ pc' = [pc EXCEPT ![o] = "listed"]
    /\ UNCHANGED <<policyConfig, toolsCache, now, ticks, mcpClient, sdkOpen, ret, events>>

(* client.ts listTools(): one pass of the read loop, from a settled        *)
(* reader.read() to the next one or to the return                          *)
ReaderRead(o) ==
    /\ pc[o] = "reading"
    /\ LET chunks == Val(frame[o].reply).chunks
           done == frame[o].reads = Len(chunks)
           buffer == IF done THEN frame[o].buffer
                     ELSE frame[o].buffer \o chunks[frame[o].reads + 1]
           scan == scanLines(split(buffer))
       IN  IF done
           THEN /\ frame' = [frame EXCEPT ![o].tools = Some(<<>>)]
                /\ pc' = [pc EXCEPT ![o] = "listed"]
           ELSE IF scan.returned
           THEN /\ frame' = [frame EXCEPT ![o].tools = Some(scan.tools),
                                           ![o].buffer = buffer,
                                           ![o].reads = @ + 1]
                /\ pc' = [pc EXCEPT ![o] = "listed"]
           ELSE /\ frame' = [frame EXCEPT ![o].buffer = buffer, ![o].reads = @ + 1]
                /\ UNCHANGED pc
    /\ UNCHANGED <<policyConfig, toolsCache, now, ticks, mcpClient, sdkOpen, ret, events>>

(* getMcpTools after listTools, keeping an entry another call wrote meanwhile *)
GetMcpToolsFinishKeepsFirst(o) ==
    /\ pc[o] = "listed"
    /\ toolsCache' = IF toolsCache # None THEN toolsCache
                     ELSE setTools(Val(frame[o].tools), None, now)
    /\ LET d == disconnect(mcpClient)
       IN  /\ mcpClient' = d.mcpClient
           /\ sdkOpen' = sdkOpen \ d.closed
           /\ events' = [events EXCEPT ![o] = @ \o <<"setTools">> \o CloseEvents(d.closed)]
    /\ Return(o, [tools |-> MapTools(Val(frame[o].tools))])
    /\ UNCHANGED <<policyConfig, now, ticks, frame>>

(* getMcpTools after await mcpClient.listTools(): when the adaptation      *)
(* throws, after the cache write and the disconnect, the catch block       *)
(* returns the empty list                                                  *)
GetMcpToolsFinish(o) ==
    /\ pc[o] = "listed"
    /\ toolsCache' = setTools(Val(frame[o].tools), None, now)
    /\ LET d == disconnect(mcpClient)
       IN  /\ mcpClient' = d.mcpClient
           /\ sdkOpen' = sdkOpen \ d.closed
           /\ events' = [events EXCEPT ![o] = @ \o <<"setTools">> \o CloseEvents(d.closed)]
    /\ IF MapToolsThrows(Val(frame[o].tools))
       THEN /\ Return(o, [tools |-> <<>>])
            /\ frame' = [frame EXCEPT ![o].error = TypeError]
       ELSE /\ Return(o, [tools |-> MapTools(Val(frame[o].tools))])
            /\ UNCHANGED frame
    /\ UNCHANGED <<policyConfig, now, ticks>>

(* getMcpTools' catch block *)
GetMcpToolsCatch(o) ==
    /\ pc[o] = "catch"
    /\ frame[o].kind = "getMcpTools"
    /\ Disconnect(o)
    /\ Return(o, [tools |-> <<>>])
    /\ UNCHANGED <<policyConfig, toolsCache, now, ticks, frame>>

----------------------------------------------------------------------------
Failure(tag, message) == [success |-> FALSE, result |-> "", error |-> tag \o ": " \o message]
Success(result) == [success |-> TRUE, result |-> result, error |-> ""]

CallMcpToolCallSizeFirst(o, toolName, args, config) ==
    LET actualToolName == IF StartsWith(toolName, "mcp_") THEN Slice(toolName, 4) ELSE toolName
        accessCheck == checkToolAccess(policyConfig, actualToolName)
        sizeCheck == checkArgumentSize(policyConfig, args)
        f == [NewFrame("invokeMcpTool", Some(config), toolName, Some(args))
                EXCEPT !.actualToolName = actualToolName, !.sizeCheck = Some(sizeCheck)]
        g == [f EXCEPT !.accessCheck = Some(accessCheck)]
    IN  IF ~sizeCheck.allowed
        THEN /\ frame' = [frame EXCEPT ![o] = f]
             /\ Return(o, Failure("MCP_INVALID_ARGUMENT", sizeCheck.reason))
             /\ events' = [events EXCEPT ![o] = <<>>]
             /\ UNCHANGED <<mcpClient, sdkOpen>>
        ELSE IF ~accessCheck.allowed
        THEN /\ frame' = [frame EXCEPT ![o] = g]
             /\ Return(o, Failure("MCP_TOOL_NOT_ALLOWED", accessCheck.reason))
             /\ events' = [events EXCEPT ![o] = <<>>]
             /\ UNCHANGED <<mcpClient, sdkOpen>>
        ELSE Connect(o, g, config, <<>>)

(* mcpTools.ts callMcpTool(toolName, args, config), up to its first await  *)
(* or its return; the two policy checks run before the try block           *)
CallMcpToolCall(o, toolName, args, config) ==
    LET actualToolName == IF StartsWith(toolName, "mcp_") THEN Slice(toolName, 4) ELSE toolName
        accessCheck == checkToolAccess(policyConfig, actualToolName)
        sizeCheck == checkArgumentSize(policyConfig, args)
        f == [NewFrame("invokeMcpTool", Some(config), toolName, Some(args))
                EXCEPT !.actualToolName = actualToolName, !.accessCheck = Some(accessCheck)]
        g == [f EXCEPT !.sizeCheck = Some(sizeCheck)]
    IN  IF ~accessCheck.allowed
        THEN /\ frame' = [frame EXCEPT ![o] = f]
             /\ Return(o, Failure("MCP_TOOL_NOT_ALLOWED", accessCheck.reason))
             /\ events' = [events EXCEPT ![o] = <<>>]
             /\ UNCHANGED <<mcpClient, sdkOpen>>
        ELSE IF checkArgumentSizeThrows(policyConfig, args)
        THEN /\ frame' = [frame EXCEPT ![o] = f]
             /\ Reject(o, createError("TypeError", "Do not know how to serialize a BigInt"))
             /\ events' = [events EXCEPT ![o] = <<>>]
             /\ UNCHANGED <<mcpClient, sdkOpen>>
        ELSE IF ~sizeCheck.allowed
        THEN /\ frame' = [frame EXCEPT ![o] = g]
             /\ Return(o, Failure("MCP_INVALID_ARGUMENT", sizeCheck.reason))
             /\ events' = [events EXCEPT ![o] = <<>>]
             /\ UNCHANGED <<mcpClient, sdkOpen>>
        ELSE Connect(o, g, config, <<>>)

(* index.ts invokeMcpTool(toolName, args, settings), config being          *)
(* getMcpConfigFromSettings(settings)                                      *)
InvokeMcpTool(o, toolName, args, config) ==
    /\ CanStart(o)
    /\ CallMcpToolCall(o, toolName, args, config)
    /\ UNCHANGED <<policyConfig, toolsCache, now, ticks>>

(* client.ts callTool(name, args) up to its request *)
CallTool(o) ==
    /\ pc[o] = "connected"
    /\ frame[o].kind = "invokeMcpTool"
    /\ IF mcpClient.client = 0 \/ ~mcpClient.isInitialized
       THEN /\ frame' = [frame EXCEPT ![o].error =
                            createError("InvalidRequest", "Not connected to MCP server")]
            /\ pc' = [pc EXCEPT ![o] = "catch"]
            /\ UNCHANGED events
       ELSE /\ events' = [events EXCEPT ![o] = @ \o <<"tools/call">>]
            /\ pc' = [pc EXCEPT ![o] = "request"]
            /\ UNCHANGED frame
    /\ UNCHANGED <<policyConfig, toolsCache, now, ticks, mcpClient, sdkOpen, ret>>

(* client.ts callTool(name, args) from the request's outcome on: it returns *)
(* the result, or throws an McpError its caller's catch block receives      *)
callToolOutcome(name, response) ==
    LET errorText == Join(TextParts(response.result.content))
    IN  IF response.kind = "neterr"
        THEN [threw |-> TRUE,
              error |-> createError("ServerError",
                            "Tool '" \o name \o "' execution failed: " \o "fetch failed")]
        ELSE IF response.result.isError
        THEN [threw |-> TRUE,
              error |-> createError("ServerError",
                            IF errorText = "" THEN "Tool execution returned error"
                            ELSE errorText)]
        ELSE [threw |-> FALSE, error |-> NoError]

CallToolResponse(o, response) ==
    /\ pc[o] = "request"
    /\ LET out == callToolOutcome(frame[o].actualToolName, response)
       IN  IF out.threw
           THEN /\ frame' = [frame EXCEPT ![o].reply = Some(response),
                                           ![o].error = out.error]
                /\ pc' = [pc EXCEPT ![o] = "catch"]
           ELSE /\ frame' = [frame EXCEPT ![o].reply = Some(response),
                                           ![o].result = Some(response.result)]
                /\ pc' = [pc EXCEPT ![o] = "called"]
    /\ UNCHANGED <<policyConfig, toolsCache, now, ticks, mcpClient, sdkOpen, ret, events>>

(* callMcpTool after await mcpClient.callTool() *)
callMcpToolResult(result) ==
    IF result.isError
    THEN Failure("MCP_SERVER_ERROR", Join(TextParts(result.content)))
    ELSE Success(formatMcpResult(result))

CallMcpToolFinish(o) ==
    /\ pc[o] = "called"
    /\ Disconnect(o)
    /\ Return(o, callMcpToolResult(Val(frame[o].result)))
    /\ UNCHANGED <<policyConfig, toolsCache, now, ticks, frame>>

(* callMcpTool's catch block *)
CallMcpToolCatch(o) ==
    /\ pc[o] = "catch"
    /\ frame[o].kind = "invokeMcpTool"
    /\ Disconnect(o)
    /\ Return(o, Failure("MCP_CONNECTION_ERROR", frame[o].error.message))
    /\ UNCHANGED <<policyConfig, toolsCache, now, ticks, frame>>

----------------------------------------------------------------------------
(* index.ts testMcp(settings) -> testMcpConnection -> client.ts testConnection(config) *)
TestMcp(o, config) ==
    /\ CanStart(o)
    /\ Connect(o, NewFrame("testMcp", Some(config), "", None), config, <<>>)
    /\ UNCHANGED <<policyConfig, toolsCache, now, ticks>>

(* this.client?.getServerVersion(), with the fallback testConnection       *)
(* applies: the identity of the server when this.client is the client     *)
(* whose handshake operation o awaited; the fallback when this.client is  *)
(* null; either when it is a client another operation created, whose      *)
(* handshake may or may not have completed                                *)
getServerVersion(mc, o) ==
    IF mc.client = 0 THEN {[name |-> "Unknown", version |-> "Unknown"]}
    ELSE IF mc.client = o THEN {ServerVersion}
    ELSE {ServerVersion, [name |-> "Unknown", version |-> "Unknown"]}

(* testConnection reading the server's identity after disconnect() *)
TestConnectionFinishAfterTeardown(o) ==
    /\ pc[o] = "connected"
    /\ frame[o].kind = "testMcp"
    /\ LET after == disconnect(mcpClient).mcpClient
           serverVersion == IF after.client # 0 THEN ServerVersion
                            ELSE [name |-> "Unknown", version |-> "Unknown"]
       IN  Return(o, [success |-> TRUE, error |-> "",
                      serverInfo |-> serverVersion.name \o " v" \o serverVersion.version])
    /\ Disconnect(o)
    /\ UNCHANGED <<policyConfig, toolsCache, now, ticks, frame>>

(* testConnection after await this.connect(config) *)
TestConnectionFinish(o) ==
    /\ pc[o] = "connected"
    /\ frame[o].kind = "testMcp"
    /\ \E serverVersion \in getServerVersion(mcpClient, o) :
          Return(o, [success |-> TRUE, error |-> "",
                     serverInfo |-> serverVersion.name \o " v" \o serverVersion.version])
    /\ Disconnect(o)
    /\ UNCHANGED <<policyConfig, toolsCache, now, ticks, frame>>

(* testConnection's catch block *)
TestConnectionCatch(o) ==
    /\ pc[o] = "catch"
    /\ frame[o].kind = "testMcp"
    /\ Disconnect(o)
    /\ Return(o, [success |-> FALSE, serverInfo |-> "",
                  error |-> IF frame[o].error.message = "" THEN "Unknown error"
                            ELSE frame[o].error.message])
    /\ UNCHANGED <<policyConfig, toolsCache, now, ticks, frame>>

RefreshMcpWithoutForceRefresh(o) ==
    /\ CanStart(o)
    /\ frame' = [frame EXCEPT ![o] = NewFrame("refreshMcp", None, "", None)]
    /\ Return(o, [call |-> "refreshMcp"])
    /\ events' = [events EXCEPT ![o] = <<>>]
    /\ UNCHANGED <<policyConfig, toolsCache, now, ticks, mcpClient, sdkOpen>>

(* index.ts refreshMcp() -> refreshMcpTools() -> mcpToolCache.forceRefresh() *)
RefreshMcp(o) ==
    /\ CanStart(o)
    /\ toolsCache' = forceRefresh(toolsCache)
    /\ frame' = [frame EXCEPT ![o] = NewFrame("refreshMcp", None, "", None)]
    /\ Return(o, [call |-> "refreshMcp"])
    /\ events' = [p \in Ops |->
                     IF p = o THEN <<"forceRefresh">>
                     ELSE IF pc[p] \in {"idle", "done"} \/ Includes(events[p], "refreshed")
                     THEN events[p]
                     ELSE Append(events[p], "refreshed")]
    /\ UNCHANGED <<policyConfig, now, ticks, mcpClient, sdkOpen>>

(* Time passes *)
Tick(d) ==
    /\ ticks < MaxTicks
    /\ ticks' = ticks + 1
    /\ now' = now + d
    /\ UNCHANGED <<policyConfig, toolsCache, mcpClient, sdkOpen, pc, frame, ret, events>>

----------------------------------------------------------------------------
(* The host issues its operations one at a time: each starts after the one *)
(* before it has returned.                                                 *)
Quiet == \A o \in Ops : pc[o] \in {"idle", "done"}

Next ==
    \/ \E config \in Configs : GetMcpTools(HostOp, config)
    \/ \E config \in Configs : LoadMcpTools(HostOp, config)
    \/ \E toolName \in ToolNames, args \in ArgsSet, config \in Configs :
          InvokeMcpTool(HostOp, toolName, args, config)
    \/ \E config \in Configs : TestMcp(HostOp, config)
    \/ Quiet /\ RefreshMcp(HostOp)
    \/ \E ok \in BOOLEAN : Handshake(HostOp, ok)
    \/ ListTools(HostOp)
    \/ \E response \in ListResponses : ListToolsResponse(HostOp, response)
    \/ GetMcpToolsFinish(HostOp)
    \/ GetMcpToolsCatch(HostOp)
    \/ CallTool(HostOp)
    \/ \E response \in CallResponses : CallToolResponse(HostOp, response)
    \/ CallMcpToolFinish(HostOp)
    \/ CallMcpToolCatch(HostOp)
    \/ TestConnectionFinish(HostOp)
    \/ TestConnectionCatch(HostOp)
    \/ \E d \in {defaultTtlMs + 1} : Tick(d)

Spec == Init /\ [][Next]_vars

----------------------------------------------------------------------------
(* Discovery against servers whose tools/list answers hold malformed       *)
(* entries or arrive as event streams                                      *)
ListTool ==
    [json |-> "object", name |-> "list", description |-> "List notes", inputSchema |-> None]
NullEntry == [json |-> "null", name |-> "", description |-> "", inputSchema |-> None]
NumberEntry == [json |-> "number", name |-> "", description |-> "", inputSchema |-> None]
NamelessEntry ==
    [json |-> "object", name |-> "", description |-> "no name", inputSchema |-> None]
(* {name: "broken", inputSchema: {properties: {q: null}}} *)
BrokenSchemaTool ==
    [json |-> "object", name |-> "broken", description |-> "",
     inputSchema |-> Some([properties |-> <<[key |-> "q",
                                              prop |-> [json |-> "null", type |-> "",
                                                        description |-> ""]]>>,
                           required |-> <<>>])]

(* A tool whose schema carries every kind of constraint of McpProperty:    *)
(* {mode: {type: "string", enum: ["a", "b"], minLength: 1, maxLength: 8},  *)
(*  limit: {type: "integer", minimum: 0, maximum: 100},                    *)
(*  tags: {type: "array", items: {type: "string", enum: ["x", "y"]}},      *)
(*  range: {type: "object", properties: {from: {type: "integer", minimum: 1}}}} *)
FilterTool ==
    [json |-> "object", name |-> "filter", description |-> "Filter notes",
     inputSchema |-> Some([properties |->
        <<[key |-> "mode",
           prop |-> [json |-> "object", type |-> "string", description |-> "mode",
                     enum |-> <<"a", "b">>, minLength |-> 1, maxLength |-> 8]],
          [key |-> "limit",
           prop |-> [json |-> "object", type |-> "integer", description |-> "",
                     minimum |-> 0, maximum |-> 100]],
          [key |-> "tags",
           prop |-> [json |-> "object", type |-> "array", description |-> "tags",
                     items |-> [json |-> "object", type |-> "string", description |-> "",
                                enum |-> <<"x", "y">>]]],
          [key |-> "range",
           prop |-> [json |-> "object", type |-> "object", description |-> "",
                     properties |-> <<[key |-> "from",
                                       prop |-> [json |-> "object", type |-> "integer",
                                                 description |-> "", minimum |-> 1]]>>]]>>,
        required |-> <<"mode">>])]

MalformedEntries == {NullEntry, NumberEntry, NamelessEntry}
MixedResponses ==
    {JsonResponse(TRUE, <<SearchTool, FetchTool, ListTool>>),
     JsonResponse(TRUE, <<BrokenSchemaTool>>),
     JsonResponse(TRUE, <<FilterTool>>),
     JsonResponse(TRUE, <<NamelessEntry, SearchTool, NumberEntry>>)}
        \cup {JsonResponse(TRUE, <<SearchTool, bad, FetchTool, ListTool>>) :
                  bad \in MalformedEntries}

(* Event streams: frames end with an empty line, chunks cut them anywhere  *)
Frame(data) == "data: " \o data \o "\n\n"
Heartbeat == ": ping\n\n"
Streams ==
    {<<Frame(ResultText)>>,
     <<"event: message\n" \o Frame(ResultText)>>,
     <<Heartbeat, Heartbeat, Frame(ResultText)>>,
     <<Heartbeat \o "data: {\"id\":1,\"resu", "lt\":{\"tools\":[\"sea",
       "rch\",\"fetch\"]}}\n\n">>,
     <<Frame(NotificationText), Frame(NotificationText), Frame(ResultText)>>,
     <<Frame(NotificationText) \o Frame(NotificationText) \o Frame(ResultText)>>,
     <<Heartbeat, Frame("[DONE]")>>,
     <<Heartbeat>>}
StreamResponses == {StreamResponse(chunks) : chunks \in Streams}

DiscoveryConfigs ==
    {McpConfig(TRUE, "http://a", <<>>, <<>>), McpConfig(TRUE, "http://a", <<>>, <<"search">>)}
DiscoveryResponses == ListResponses \cup MixedResponses \cup StreamResponses

DiscoveryNext ==
    \/ \E config \in DiscoveryConfigs : GetMcpTools(HostOp, config)
    \/ \E config \in DiscoveryConfigs : LoadMcpTools(HostOp, config)
    \/ Quiet /\ RefreshMcp(HostOp)
    \/ \E ok \in BOOLEAN : Handshake(HostOp, ok)
    \/ ListTools(HostOp)
    \/ \E response \in DiscoveryResponses : ListToolsResponse(HostOp, response)
    \/ ReaderRead(HostOp)
    \/ GetMcpToolsFinish(HostOp)
    \/ GetMcpToolsCatch(HostOp)
    \/ \E d \in {defaultTtlMs + 1} : Tick(d)

DiscoverySpec == Init /\ [][DiscoveryNext]_vars

----------------------------------------------------------------------------
(* The tool cache on its own: calls of its methods with time passing       *)
(* between them.  events holds the calls made, ret the last call and what  *)
(* it returned.                                                            *)
MaxCalls == 4

CacheLists == {<<>>, McpToolsOf(<<SearchTool>>)}
Ttls == {None, Some(0), Some(1)}

CacheCall(o, returned) ==
    /\ Len(events[o]) < MaxCalls
    /\ events' = [events EXCEPT ![o] = Append(@, returned.call)]
    /\ ret' = [ret EXCEPT ![o] = Some(returned)]
    /\ UNCHANGED <<policyConfig, now, ticks, mcpClient, sdkOpen, pc, frame>>

CacheSetTools(o, tools, ttlMs) ==
    /\ CacheCall(o, [call |-> "setTools", tools |-> tools, ttlMs |-> ttlMs])
    /\ toolsCache' = setTools(tools, ttlMs, now)

CacheGetTools(o) ==
    /\ CacheCall(o, [call |-> "getTools", value |-> getTools(toolsCache, now).value])
    /\ toolsCache' = getTools(toolsCache, now).cache

CacheInvalidate(o) ==
    /\ CacheCall(o, [call |-> "invalidate"])
    /\ toolsCache' = invalidate(toolsCache)

CacheHasValidCache(o) ==
    /\ CacheCall(o, [call |-> "hasValidCache", valid |-> hasValidCache(toolsCache, now).value])
    /\ toolsCache' = hasValidCache(toolsCache, now).cache

CacheGetCacheAge(o) ==
    /\ CacheCall(o, [call |-> "getCacheAge", age |-> getCacheAge(toolsCache, now)])
    /\ UNCHANGED toolsCache

CacheForceRefresh(o) ==
    /\ CacheCall(o, [call |-> "forceRefresh"])
    /\ toolsCache' = forceRefresh(toolsCache)

CacheNext ==
    \/ \E tools \in CacheLists, ttlMs \in Ttls : CacheSetTools(HostOp, tools, ttlMs)
    \/ CacheGetTools(HostOp)
    \/ CacheInvalidate(HostOp)
    \/ CacheHasValidCache(HostOp)
    \/ CacheGetCacheAge(HostOp)
    \/ CacheForceRefresh(HostOp)
    \/ \E d \in {1, defaultTtlMs} : Tick(d)

CacheSpec == Init /\ [][CacheNext]_vars

----------------------------------------------------------------------------
(* Invocations of the tools a discovery returned, by their adapted names,  *)
(* one of them a remote tool whose own name starts with mcp_; among the    *)
(* arguments is {n: 10n}, which has no JSON form                           *)
McpXTool ==
    [json |-> "object", name |-> "mcp_x", description |-> "X", inputSchema |-> None]

InvocationConfigs ==
    {McpConfig(TRUE, "http://a", <<>>, <<>>), McpConfig(TRUE, "http://a", <<"mcp_x">>, <<>>)}
InvocationResponses == {JsonResponse(TRUE, <<SearchTool, McpXTool>>)}
InvocationNames == {"mcp_search", "mcp_mcp_x"}
InvocationArgs == {[q |-> Text(1, 0)], [q |-> Text(1015, 1)], [n |-> [bigint |-> 10]]}

InvocationNext ==
    \/ \E config \in InvocationConfigs : GetMcpTools(HostOp, config)
    \/ \E toolName \in InvocationNames, args \in InvocationArgs, config \in InvocationConfigs :
          InvokeMcpTool(HostOp, toolName, args, config)
    \/ \E ok \in BOOLEAN : Handshake(HostOp, ok)
    \/ ListTools(HostOp)
    \/ \E response \in InvocationResponses : ListToolsResponse(HostOp, response)
    \/ GetMcpToolsFinish(HostOp)
    \/ GetMcpToolsCatch(HostOp)
    \/ CallTool(HostOp)
    \/ \E response \in CallResponses : CallToolResponse(HostOp, response)
    \/ CallMcpToolFinish(HostOp)
    \/ CallMcpToolCatch(HostOp)

InvocationSpec == Init /\ [][InvocationNext]_vars

----------------------------------------------------------------------------
(* Overlapping host operations: two operations of the host interleave at   *)
(* their awaits over the one client, the one policy and the one cache      *)
ConcurrentConfigs == {McpConfig(TRUE, "http://a", <<>>, <<>>)}
ConcurrentResponses ==
    {JsonResponse(TRUE, <<SearchTool>>), JsonResponse(TRUE, <<FetchTool>>)}
ConcurrentCallResponses ==
    {[kind |-> "result", result |-> CallToolResult(FALSE, <<[type |-> "text", text |-> "found"]>>)]}

ConcurrentNext ==
    \E o \in Ops :
       \/ \E config \in ConcurrentConfigs : GetMcpTools(o, config)
       \/ \E config \in ConcurrentConfigs :
             InvokeMcpTool(o, "mcp_search", [q |-> Text(1, 0)], config)
       \/ \E config \in ConcurrentConfigs : TestMcp(o, config)
       \/ RefreshMcp(o)
       \/ \E ok \in BOOLEAN : Handshake(o, ok)
       \/ TestConnectionFinish(o)
       \/ TestConnectionCatch(o)
       \/ ListTools(o)
       \/ \E response \in ConcurrentResponses : ListToolsResponse(o, response)
       \/ GetMcpToolsFinish(o)
       \/ GetMcpToolsCatch(o)
       \/ CallTool(o)
       \/ \E response \in ConcurrentCallResponses : CallToolResponse(o, response)
       \/ CallMcpToolFinish(o)
       \/ CallMcpToolCatch(o)

ConcurrentSpec == Init /\ [][ConcurrentNext]_vars

----------------------------------------------------------------------------
(* policy.ts validateConfig(config) over partial configurations: a member  *)
(* of the partial config is absent (None) or supplied                      *)
RECURSIVE toLowerCase(_)
toLowerCase(s) ==
    IF s = "" THEN ""
    ELSE LET c == SubSeq(s, 1, 1)
         IN  (CASE c = "H" -> "h" [] c = "T" -> "t" [] c = "P" -> "p" [] c = "S" -> "s"
                [] OTHER -> c) \o toLowerCase(SubSeq(s, 2, Len(s)))

(* new URL(url).protocol: the scheme in lower case with its colon *)
protocol(url) ==
    LET i == CHOOSE i \in 2..Len(url) :
                 /\ SubSeq(url, i, i) = ":"
                 /\ \A j \in 1..(i - 1) : SubSeq(url, j, j) # ":"
    IN  toLowerCase(SubSeq(url, 1, i))

isValidUrl(url) == ParsableUrl(url) /\ protocol(url) \in {"http:", "https:"}

(* A number is truthy unless it is 0. *)
validateConfig(config) ==
    LET noUrl == config.serverUrl = None \/ Val(config.serverUrl) = ""
        required == IF noUrl THEN <<"Server URL is required when MCP is enabled">> ELSE <<>>
        url == IF ~noUrl /\ ~isValidUrl(Val(config.serverUrl))
               THEN <<"Server URL must be a valid HTTP/HTTPS URL">> ELSE <<>>
        timeout == IF /\ config.timeoutMs # None
                      /\ Val(config.timeoutMs) # 0
                      /\ Val(config.timeoutMs) < 1000
                   THEN <<"Timeout must be at least 1000ms">> ELSE <<>>
        size == IF /\ config.maxArgChars # None
                   /\ Val(config.maxArgChars) # 0
                   /\ Val(config.maxArgChars) < 1
                THEN <<"Max argument size must be at least 1KB">> ELSE <<>>
        errors == IF config.enabled = Some(TRUE)
                  THEN required \o url \o timeout \o size
                  ELSE <<>>
    IN  [valid |-> Len(errors) = 0, errors |-> errors]

PartialConfigs ==
    [enabled : {None, Some(TRUE), Some(FALSE)},
     serverUrl : {None, Some(""), Some("http://a"), Some("HTTPS://a"), Some("ftp://a"),
                  Some("nourl")},
     timeoutMs : {None, Some(-1), Some(0), Some(999), Some(1000)},
     maxArgChars : {None, Some(-1), Some(0), Some(1)}]

ValidateConfig(o, config) ==
    /\ CanStart(o)
    /\ frame' = [frame EXCEPT ![o] = NewFrame("validateConfig", Some(config), "", None)]
    /\ Return(o, validateConfig(config))
    /\ events' = [events EXCEPT ![o] = <<"validateConfig">>]
    /\ UNCHANGED <<policyConfig, toolsCache, now, ticks, mcpClient, sdkOpen>>

ValidateNext == \E config \in PartialConfigs : ValidateConfig(HostOp, config)

ValidateSpec == Init /\ [][ValidateNext]_vars

----------------------------------------------------------------------------
(* A change of the server endpoint in the settings: two servers, each      *)
(* answering tools/list with its own tools; the fetch of listTools goes to *)
(* this.config.serverUrl                                                   *)
ServerTools(serverUrl) ==
    IF serverUrl = "http://a" THEN <<SearchTool, ListTool>> ELSE <<FetchTool>>

EndpointConfigs ==
    {McpConfig(enabled, serverUrl, allowTools, <<>>) :
        enabled \in BOOLEAN, serverUrl \in {"http://a", "http://b"}, allowTools \in Lists}

EndpointListToolsResponse(o) ==
    /\ mcpClient.config # None
    /\ ListToolsResponse(o, JsonResponse(TRUE, ServerTools(Val(mcpClient.config).serverUrl)))

EndpointNext ==
    \/ \E config \in EndpointConfigs : GetMcpTools(HostOp, config)
    \/ Quiet /\ RefreshMcp(HostOp)
    \/ \E ok \in BOOLEAN : Handshake(HostOp, ok)
    \/ ListTools(HostOp)
    \/ EndpointListToolsResponse(HostOp)
    \/ GetMcpToolsFinish(HostOp)
    \/ GetMcpToolsCatch(HostOp)
    \/ \E d \in {defaultTtlMs + 1} : Tick(d)

EndpointSpec == Init /\ [][EndpointNext]_vars

----------------------------------------------------------------------------
(* client.ts McpClient as a unit: connect(config) and disconnect() called  *)
(* on the singleton in any state of the session, the promise of the SDK    *)
(* client's close() resolving or rejecting                                 *)
CloseError == createError("Error", "close failed")

(* disconnect() letting a rejection of close() reach its caller *)
disconnectThrowsOnCloseFailure(mc, closeFails) == mc.client # 0 /\ closeFails

(* void this.client.close().catch(...): close() is async, so a failure is  *)
(* a rejection, and the rejection is handled by the catch callback, which  *)
(* logs a warning                                                          *)
disconnectThrows(mc, closeFails) == FALSE

ClientConfigs == {McpConfig(TRUE, u, <<>>, <<>>) : u \in {"http://a", "", "nourl"}}
Settled(o) == pc[o] \in {"idle", "connected", "catch", "done"}

ClientConnect(o, config) ==
    /\ Settled(o)
    /\ Connect(o, NewFrame("connect", Some(config), "", None), config, <<>>)
    /\ UNCHANGED <<policyConfig, toolsCache, now, ticks, ret>>

(* disconnect() called by a caller whose own error, if it is cleaning up   *)
(* after one, is frame[o].error                                            *)
ClientDisconnect(o, closeFails) ==
    /\ Settled(o)
    /\ LET d == disconnect(mcpClient)
           threw == disconnectThrows(mcpClient, closeFails)
       IN  /\ mcpClient' = d.mcpClient
           /\ sdkOpen' = sdkOpen \ d.closed
           /\ events' = [events EXCEPT ![o] =
                            <<"disconnect">> \o CloseEvents(d.closed)
                               \o (IF d.closed # {} /\ closeFails
                                   THEN <<"close rejected">> ELSE <<>>)]
           /\ frame' = [frame EXCEPT ![o].kind = "disconnect",
                                     ![o].error = IF threw THEN CloseError ELSE @]
           /\ IF threw THEN Reject(o, CloseError)
                       ELSE Return(o, [call |-> "disconnect"])
    /\ UNCHANGED <<policyConfig, toolsCache, now, ticks>>

ClientNext ==
    \E o \in Ops :
       \/ \E config \in ClientConfigs : ClientConnect(o, config)
       \/ \E ok \in BOOLEAN : Handshake(o, ok)
       \/ \E closeFails \in BOOLEAN : ClientDisconnect(o, closeFails)

ClientSpec == Init /\ [][ClientNext]_vars

----------------------------------------------------------------------------
(* Properties *)
NetworkCalls == {"handshake", "tools/list", "tools/call"}
NoNetwork(o) ==
    \A i \in 1..Len(events[o]) : events[o][i] \notin NetworkCalls \cup {"connect"}
Invoked(o) == frame[o].kind = "invokeMcpTool"
Returned(o) == pc[o] = "done"
Tagged(o, tag) ==
    /\ Returned(o)
    /\ ~Val(ret[o]).success
    /\ StartsWith(Val(ret[o]).error, tag \o ":")

(* C1: an invocation whose own config lists the unprefixed tool name in    *)
(* denyTools returns MCP_TOOL_NOT_ALLOWED and makes no connect and no       *)
(* request, whatever ran before it.                                        *)
C1_DeniedByOwnDenyList ==
    \A o \in Ops :
        (Invoked(o) /\ Includes(Val(frame[o].config).denyTools, frame[o].actualToolName))
            => (Tagged(o, "MCP_TOOL_NOT_ALLOWED") /\ NoNetwork(o))

(* C2: an invocation whose own config has enabled=false is denied by the   *)
(* access check and never opens a session.                                 *)
C2_DisabledConfigDenied ==
    \A o \in Ops :
        (Invoked(o) /\ ~Val(frame[o].config).enabled)
            => (Tagged(o, "MCP_TOOL_NOT_ALLOWED") /\ NoNetwork(o))

(* C3: an invocation whose own config is enabled, permits the name and     *)
(* holds the arguments' size is approved by both policy checks and goes on *)
(* to connect, whatever ran before it.                                     *)
C3_VerdictFromOwnConfig ==
    \A o \in Ops :
        (/\ Invoked(o)
         /\ Val(frame[o].config).enabled
         /\ checkToolAccess(frame[o].config, frame[o].actualToolName).allowed
         /\ checkArgumentSize(frame[o].config, Val(frame[o].args)).allowed)
            => (/\ frame[o].accessCheck = Some(Allowed)
                /\ frame[o].sizeCheck = Some(Allowed)
                /\ Includes(events[o], "connect"))

(* C4: under a configured policy, a tool name that is in the allow-list    *)
(* and in the deny-list is denied by checkToolAccess.                      *)
C4_DenyOverridesAllow ==
    \A o \in Ops :
        (/\ Invoked(o)
         /\ policyConfig # None
         /\ Includes(Val(policyConfig).allowTools, frame[o].actualToolName)
         /\ Includes(Val(policyConfig).denyTools, frame[o].actualToolName))
            => (/\ ~Val(frame[o].accessCheck).allowed
                /\ Tagged(o, "MCP_TOOL_NOT_ALLOWED"))

C4_Witness ==
    /\ Invoked(HostOp)
    /\ policyConfig # None
    /\ Val(policyConfig).allowTools = <<"search">>
    /\ Val(policyConfig).denyTools = <<"search">>
    /\ frame[HostOp].toolName = "mcp_search"
    /\ frame[HostOp].accessCheck = Some(Denied("Tool 'search' is in deny list"))

(* The tool names the host passes and the remote names they stand for *)
Unprefixed(toolName) ==
    CASE toolName = "mcp_search" -> "search"
      [] toolName = "search" -> "search"
      [] toolName = "mcp_Search" -> "Search"
      [] toolName = "mcp_fetch" -> "fetch"

(* C5: under an enabled policy whose deny-list does not hold the unprefixed *)
(* name, checkToolAccess allows exactly when the allow-list is empty or    *)
(* holds that name, letter case included.                                  *)
C5_AllowListExact ==
    \A o \in Ops :
        (/\ Invoked(o)
         /\ policyConfig # None
         /\ Val(policyConfig).enabled
         /\ \A i \in 1..Len(Val(policyConfig).denyTools) :
                Val(policyConfig).denyTools[i] # Unprefixed(frame[o].toolName))
            => (Val(frame[o].accessCheck).allowed
                    <=> \/ Val(policyConfig).allowTools = <<>>
                        \/ \E i \in 1..Len(Val(policyConfig).allowTools) :
                              Val(policyConfig).allowTools[i] = Unprefixed(frame[o].toolName))

C5_Witness ==
    /\ Invoked(HostOp)
    /\ policyConfig # None
    /\ Val(policyConfig).allowTools = <<"search">>
    /\ Val(policyConfig).denyTools = <<>>
    /\ frame[HostOp].toolName = "mcp_Search"
    /\ frame[HostOp].accessCheck = Some(Denied("Tool 'Search' is not in allow list"))

(* C6: with a policy configured for a 1 KB ceiling, the 1024-byte payload  *)
(* passes checkArgumentSize and the 1025-byte payload is denied with a     *)
(* reason naming 1025 and 1024 bytes.                                      *)
C6_SizeBoundary ==
    \A o \in Ops :
        (/\ Invoked(o)
         /\ policyConfig # None
         /\ Val(policyConfig).maxArgChars = 1
         /\ Val(frame[o].accessCheck).allowed)
            => (/\ frame[o].args \in {Some([q |-> Text(1, 0)]), Some([q |-> Text(1014, 1)])}
                    => frame[o].sizeCheck = Some(Allowed)
                /\ frame[o].args = Some([q |-> Text(1015, 1)])
                    => /\ frame[o].sizeCheck = Some(Denied(
                              "Argument size 1025 bytes exceeds limit 1024 bytes"))
                       /\ ret[o] = Some(Failure("MCP_INVALID_ARGUMENT",
                              "Argument size 1025 bytes exceeds limit 1024 bytes")))

C6_Witness ==
    /\ Invoked(HostOp)
    /\ policyConfig # None
    /\ frame[HostOp].args = Some([q |-> Text(1015, 1)])
    /\ frame[HostOp].accessCheck = Some(Allowed)
    /\ Returned(HostOp)
    /\ ~Val(frame[HostOp].sizeCheck).allowed

(* C7: callMcpTool checks access before size and connects only after both  *)
(* pass: a name the policy denies returns MCP_TOOL_NOT_ALLOWED whatever the *)
(* size, a permitted name with an oversized payload returns                *)
(* MCP_INVALID_ARGUMENT, and neither reaches connect.                      *)
C7_AccessThenSize ==
    \A o \in Ops :
        Invoked(o) =>
            LET access == checkToolAccess(policyConfig, frame[o].actualToolName)
                size == checkArgumentSize(policyConfig, Val(frame[o].args))
            IN  /\ ~access.allowed
                    => (Tagged(o, "MCP_TOOL_NOT_ALLOWED") /\ events[o] = <<>>)
                /\ (access.allowed /\ ~size.allowed)
                    => (Tagged(o, "MCP_INVALID_ARGUMENT") /\ events[o] = <<>>)
                /\ Includes(events[o], "connect") => (access.allowed /\ size.allowed)

C7_Witness ==
    /\ Invoked(HostOp)
    /\ ~checkToolAccess(policyConfig, frame[HostOp].actualToolName).allowed
    /\ policyConfig # None
    /\ ~checkArgumentSize(policyConfig, Val(frame[HostOp].args)).allowed
    /\ Tagged(HostOp, "MCP_TOOL_NOT_ALLOWED")

(* C8: when the server answers tools/call with a result flagged isError,   *)
(* the invocation returns an error tagged MCP_SERVER_ERROR.                *)
C8_ExecutionErrorTagged ==
    \A o \in Ops :
        (/\ Invoked(o)
         /\ Returned(o)
         /\ frame[o].reply # None
         /\ Val(frame[o].reply).kind = "result"
         /\ Val(frame[o].reply).result.isError)
            => Tagged(o, "MCP_SERVER_ERROR")

(* C9: between host operations the client is disconnected and no SDK       *)
(* client is left open; an operation that missed the cache or was approved *)
(* calls connect itself, sends its request only on the session it opened,  *)
(* and has called close on that session when it returns.                   *)
MissedCache(o) ==
    /\ frame[o].kind = "getMcpTools"
    /\ Val(frame[o].config).enabled
    /\ (pc[o] # "done" \/ frame[o].error # NoError \/ frame[o].tools # None)
Approved(o) == Invoked(o) /\ frame[o].sizeCheck = Some(Allowed)

C9_SessionPerOperation ==
    /\ Quiet => (mcpClient = Disconnected /\ sdkOpen = {})
    /\ \A o \in Ops :
        /\ (MissedCache(o) \/ Approved(o)) => Includes(events[o], "connect")
        /\ \A i \in 1..Len(events[o]) :
                events[o][i] \in {"tools/list", "tools/call"}
                    => /\ \E j \in 1..(i - 1) : events[o][j] = "handshake"
                       /\ \A j \in 1..(i - 1) : events[o][j] # "close"
        /\ Returned(o)
                => \A i \in 1..Len(events[o]) :
                        events[o][i] = "handshake"
                            => \E j \in (i + 1)..Len(events[o]) : events[o][j] = "close"

C9_Witness ==
    /\ Approved(HostOp)
    /\ Returned(HostOp)
    /\ Val(ret[HostOp]).success
    /\ events[HostOp] = <<"connect", "handshake", "tools/call", "close">>
    /\ mcpClient = Disconnected

(* C10: getMcpTools (and loadMcpTools) with enabled=false returns an empty *)
(* list at once: no cache read, no connect, no request.                    *)
C10_DisabledReturnsEmpty ==
    \A o \in Ops :
        (/\ frame[o].kind \in {"getMcpTools", "loadMcpTools"}
         /\ ~Val(frame[o].config).enabled)
            => (/\ Returned(o)
                /\ ret[o] = Some([tools |-> <<>>])
                /\ events[o] = <<>>)

(* ... also while the cache holds an expired entry, which a read would clear *)
C10_Witness ==
    /\ frame[HostOp].kind = "getMcpTools"
    /\ ~Val(frame[HostOp].config).enabled
    /\ Returned(HostOp)
    /\ toolsCache # None
    /\ now - Val(toolsCache).timestamp > Val(toolsCache).ttl

DiscoveryFailed(o) ==
    \/ frame[o].error # NoError
    \/ /\ frame[o].reply # None
       /\ (Val(frame[o].reply).kind = "neterr" \/ ~Val(frame[o].reply).ok)
    \/ /\ toolsCache # None
       /\ MapToolsThrows(Val(toolsCache).data)

C12_NeverPropagates ==
    \A o \in Ops :
        (frame[o].kind = "getMcpTools" /\ Returned(o))
            => (/\ DOMAIN Val(ret[o]) = {"tools"}
                /\ DiscoveryFailed(o) => ret[o] = Some([tools |-> <<>>]))

(* C13: a getMcpTools call whose discovery failed (connect threw, the      *)
(* tools/list request failed or was answered with a non-2xx status) has    *)
(* written nothing to the cache when it returns.                           *)
ConnectFailed(o) == frame[o].error # NoError /\ frame[o].reply = None
ListingFailed(o) ==
    /\ frame[o].reply # None
    /\ (Val(frame[o].reply).kind = "neterr" \/ ~Val(frame[o].reply).ok)

C13_CacheOnlyOnSuccess ==
    \A o \in Ops :
        (/\ frame[o].kind = "getMcpTools"
         /\ Returned(o)
         /\ (ConnectFailed(o) \/ ListingFailed(o)))
            => ~Includes(events[o], "setTools")

(* C14: getTools called on an entry whose age has reached its ttl, the age *)
(* equal to the ttl included, returns absent and clears the entry.         *)
C14_StrictExpiry ==
    [][(/\ toolsCache # None
        /\ now - Val(toolsCache).timestamp >= Val(toolsCache).ttl
        /\ CacheGetTools(HostOp))
            => (/\ ret'[HostOp] = Some([call |-> "getTools", value |-> None])
                /\ toolsCache' = None)]_vars

(* C15: when getTools is the first call after setTools(tools, ttlMs), it   *)
(* returns tools if no time has passed; if more than the ttl has passed    *)
(* (five minutes when ttlMs was left out) it returns absent and clears the *)
(* entry, and getCacheAge then reports absent.                             *)
C15_SetThenGet ==
    [][\A tools \in CacheLists, ttlMs \in Ttls :
          (/\ ret[HostOp] = Some([call |-> "setTools", tools |-> tools, ttlMs |-> ttlMs])
           /\ CacheGetTools(HostOp))
              => LET elapsed == now - Val(toolsCache).timestamp
                     ttl == IF ttlMs = None THEN defaultTtlMs ELSE Val(ttlMs)
                 IN  /\ elapsed = 0
                        => ret'[HostOp] = Some([call |-> "getTools", value |-> Some(tools)])
                     /\ elapsed > ttl
                        => /\ ret'[HostOp] = Some([call |-> "getTools", value |-> None])
                           /\ toolsCache' = None
                           /\ getCacheAge(toolsCache', now') = None]_vars

(* C17: forceRefresh, from any cache state, returns without an error and   *)
(* leaves no entry, which is what invalidate leaves: also when it is       *)
(* called twice in a row and when there is no entry.                       *)
C17_ForceRefreshIdempotent ==
    [][CacheForceRefresh(HostOp)
          => (/\ toolsCache' = None
              /\ toolsCache' = invalidate(toolsCache)
              /\ forceRefresh(toolsCache') = toolsCache'
              /\ ret'[HostOp] = Some([call |-> "forceRefresh"]))]_vars

C17_Witness ==
    /\ events[HostOp] = <<"setTools", "forceRefresh", "forceRefresh">>
    /\ ret[HostOp] = Some([call |-> "forceRefresh"])
    /\ toolsCache = None

(* C16: a getMcpTools call with an enabled config that directly follows    *)
(* refreshMcp() finds no cache entry: it returns nothing from the cache,   *)
(* calls connect, and once the handshake has succeeded sends tools/list    *)
(* and caches what that request gave.                                      *)
AfterRefresh(o) ==
    /\ frame[o].kind = "getMcpTools"
    /\ frame[o].afterRefresh
    /\ Val(frame[o].config).enabled

C16_RefreshThenDiscover ==
    \A o \in Ops :
        AfterRefresh(o)
            => (/\ Len(events[o]) >= 2
                /\ SubSeq(events[o], 1, 2) = <<"getTools", "connect">>
                /\ (pc[o] \in {"fetch", "reading", "listed"}
                        \/ (Returned(o) /\ frame[o].error = NoError))
                    => Includes(events[o], "tools/list")
                /\ (Returned(o) /\ frame[o].error = NoError)
                    => (/\ Includes(events[o], "setTools")
                        /\ toolsCache # None
                        /\ Val(toolsCache).data = Val(frame[o].tools)))

C16_Witness ==
    /\ AfterRefresh(HostOp)
    /\ Returned(HostOp)
    /\ events[HostOp] =
          <<"getTools", "connect", "handshake", "tools/list", "setTools", "close">>
    /\ Len(Val(ret[HostOp]).tools) = 2

(* C18: no request stays in flight across a lapse of more than the         *)
(* operation's timeoutMs: when that much time passes without a response,   *)
(* the request is aborted and the operation goes to its error handling.    *)
InFlight == {"handshake", "fetch", "reading", "request"}

C18_TimeoutAborts ==
    [][\A o \in Ops :
          (/\ pc[o] \in InFlight
           /\ now' - now > Val(frame[o].config).timeoutMs)
              => pc'[o] \in {"catch", "done"}]_vars

(* C19: a getMcpTools call whose tools/list was answered with a JSON       *)
(* result returns the adaptation of exactly the well-formed entries of the *)
(* tools array, in their order, whatever malformed entries stand between   *)
(* them.                                                                   *)
WellFormed(tool) ==
    /\ tool.json = "object"
    /\ tool.name # ""
    /\ ~mcpToolToCopilotToolThrows(McpToolOf(tool))

C19_MalformedSkipped ==
    \A o \in Ops :
        (/\ frame[o].kind = "getMcpTools"
         /\ Returned(o)
         /\ frame[o].reply # None
         /\ Val(frame[o].reply).kind = "http"
         /\ Val(frame[o].reply).ok
         /\ Val(frame[o].reply).contentType = "application/json")
            => ret[o] = Some([tools |->
                   MapTools(McpToolsOf(SelectSeq(Val(frame[o].reply).tools, WellFormed)))])

(* C20: a tools/list answer delivered as an event stream whose last frame  *)
(* carries the JSON-RPC result is decoded by listTools to the list it      *)
(* returns for an application/json answer carrying that result, however    *)
(* the stream is cut into chunks and whatever frames come first.           *)
RECURSIVE Concat(_)
Concat(chunks) == IF chunks = <<>> THEN "" ELSE Head(chunks) \o Concat(Tail(chunks))

EndsWith(text, suffix) ==
    /\ Len(text) >= Len(suffix)
    /\ SubSeq(text, Len(text) - Len(suffix) + 1, Len(text)) = suffix

C20_StreamDecodedAsJson ==
    \A o \in Ops :
        (/\ frame[o].kind = "getMcpTools"
         /\ frame[o].tools # None
         /\ frame[o].reply # None
         /\ Val(frame[o].reply).contentType = "text/event-stream"
         /\ EndsWith(Concat(Val(frame[o].reply).chunks), Frame(ResultText)))
            => Val(frame[o].tools)
                   = listToolsResult(JsonResponse(TRUE, Val(JSONparse(ResultText).tools)))

(* C21: the read loop of listTools ends only at the frame that carries the *)
(* result, at [DONE], or at the end of the stream: frames before the       *)
(* result are passed over, the result frame gives the tool list, and no    *)
(* chunk is read after the one that completes it.                          *)
HasLine(text, line) == \E i \in 1..Len(split(text)) : split(text)[i] = line

StreamRead(o) ==
    /\ frame[o].kind = "getMcpTools"
    /\ frame[o].reply # None
    /\ Val(frame[o].reply).contentType = "text/event-stream"
    /\ frame[o].tools # None

C21_ReadUntilResult ==
    \A o \in Ops :
        StreamRead(o)
            => LET chunks == Val(frame[o].reply).chunks
                   resultLine == "data: " \o ResultText
               IN  /\ \/ HasLine(frame[o].buffer, resultLine)
                      \/ HasLine(frame[o].buffer, "data: [DONE]")
                      \/ frame[o].reads = Len(chunks)
                   /\ HasLine(frame[o].buffer, resultLine)
                        => /\ Val(frame[o].tools) = McpToolsOf(Val(JSONparse(ResultText).tools))
                           /\ ~HasLine(Concat(SubSeq(chunks, 1, frame[o].reads - 1)),
                                       resultLine)

(* C22: every invokeMcpTool call that has ended has returned a result      *)
(* object, {success: true, result} or {success: false, error} with error   *)
(* starting with one of the four category tags: it never rejects.          *)
ErrorTags ==
    {"MCP_TOOL_NOT_ALLOWED", "MCP_INVALID_ARGUMENT", "MCP_SERVER_ERROR", "MCP_CONNECTION_ERROR"}

C22_AlwaysTaggedResult ==
    \A o \in Ops :
        (Invoked(o) /\ Returned(o))
            => (/\ DOMAIN Val(ret[o]) = {"success", "result", "error"}
                /\ \/ Val(ret[o]).success /\ Val(ret[o]).error = ""
                   \/ /\ ~Val(ret[o]).success
                      /\ \E tag \in ErrorTags : StartsWith(Val(ret[o]).error, tag \o ": "))

(* C23: a connect that throws for a missing serverUrl creates nothing and  *)
(* leaves the client's fields as they were; a connect that fails at the    *)
(* transport or at the handshake leaves the client disconnected with its   *)
(* SDK client closed and raises an error that carries the cause; the       *)
(* client becomes initialized only by a handshake that succeeded.          *)
C23_ConnectFailureTearsDown ==
    [][\A o \in Ops :
          /\ (CanStart(o) /\ pc'[o] = "catch")
                => /\ frame'[o].error.code \in {"InvalidParams", "InternalError"}
                   /\ frame'[o].error.code = "InvalidParams"
                        => (/\ Val(frame'[o].config).serverUrl = ""
                            /\ mcpClient' = mcpClient
                            /\ sdkOpen' = sdkOpen
                            /\ ~Includes(events'[o], "handshake"))
                   /\ frame'[o].error.code = "InternalError"
                        => (/\ frame'[o].error.message # ""
                            /\ mcpClient' = Disconnected
                            /\ o \notin sdkOpen')
          /\ (pc[o] = "handshake" /\ pc'[o] = "catch")
                => (/\ frame'[o].error = createError("InternalError", "handshake failed")
                    /\ mcpClient' = Disconnected
                    /\ o \notin sdkOpen'
                    /\ Includes(events'[o], "close"))
          /\ (~mcpClient.isInitialized /\ mcpClient'.isInitialized)
                => \E p \in Ops : pc[p] = "handshake" /\ pc'[p] = "connected"]_vars

C23_Witness ==
    /\ pc[HostOp] = "catch"
    /\ frame[HostOp].error = createError("InternalError", "handshake failed")
    /\ events[HostOp] = <<"connect", "handshake", "close">>
    /\ mcpClient = Disconnected
    /\ sdkOpen = {}

(* C24: listTools and callTool on a client that is not ready (never        *)
(* connected, or disconnected since by another operation) fail with the    *)
(* not-connected error and send no request: the operation that was about   *)
(* to list or call moves to its catch block with that error and with no    *)
(* further network call in its record                                      *)
NotReady == mcpClient.client = 0 \/ ~mcpClient.isInitialized
C24_NotReadySendsNothing ==
    [][\A o \in Ops :
          (pc[o] = "connected" /\ frame[o].kind \in {"getMcpTools", "invokeMcpTool"}
                /\ NotReady /\ pc'[o] # pc[o])
             => /\ pc'[o] = "catch"
                /\ frame'[o].error = createError("InvalidRequest", "Not connected to MCP server")
                /\ events'[o] = events[o]]_vars
C24_Witness ==
    \E o \in Ops :
       /\ pc[o] = "catch"
       /\ frame[o].kind = "getMcpTools"
       /\ frame[o].error = createError("InvalidRequest", "Not connected to MCP server")
       /\ ~Includes(events[o], "tools/list")

(* C25: testMcp never throws and always ends with the session closed: it   *)
(* returns success with the server's name and version, read before the     *)
(* teardown, when the handshake succeeded, and a failure with the reason   *)
(* otherwise                                                               *)
C25_TestConnectionClosesAndReports ==
    [][\A o \in Ops :
          (frame[o].kind = "testMcp" /\ pc[o] \in {"connected", "catch"} /\ pc'[o] # pc[o])
             => /\ pc'[o] = "done"
                /\ mcpClient' = Disconnected
                /\ o \notin sdkOpen'
                /\ ret'[o] # None
                /\ "success" \in DOMAIN Val(ret'[o])
                /\ Val(ret'[o]).success = (pc[o] = "connected")
                /\ pc[o] = "connected"
                      => Val(ret'[o]).serverInfo
                            = ServerVersion.name \o " v" \o ServerVersion.version
                /\ pc[o] = "catch"
                      => /\ Val(ret'[o]).error # ""
                         /\ Val(ret'[o]).error = frame[o].error.message]_vars
C25_Witness ==
    /\ pc[HostOp] = "done"
    /\ frame[HostOp].kind = "testMcp"
    /\ events[HostOp] = <<"connect", "handshake", "close">>
    /\ ret[HostOp] # None
    /\ Val(ret[HostOp]).success
    /\ Val(ret[HostOp]).serverInfo = "srv v1.0"
    /\ mcpClient = Disconnected
    /\ sdkOpen = {}

(* C26: the adapted name of a discovered tool is "mcp_" followed by its    *)
(* remote name, and stripping the prefix as callMcpTool does recovers      *)
(* exactly the remote name, also when the remote name itself starts with   *)
(* "mcp_"; an invocation by the adapted name checks the policy against the *)
(* remote name and sends the remote name to the server                     *)
C26_NameRoundTrip ==
    \A o \in Ops :
       (frame[o].kind = "invokeMcpTool" /\ toolsCache # None)
          => \A i \in 1..Len(Val(toolsCache).data) :
                LET remote == Val(toolsCache).data[i].name
                    adapted == mcpToolToCopilotTool(Val(toolsCache).data[i]).name
                    stripped == IF StartsWith(adapted, "mcp_") THEN Slice(adapted, 4)
                                ELSE adapted
                IN  /\ adapted = "mcp_" \o remote
                    /\ stripped = remote
                    /\ frame[o].toolName = adapted
                          => /\ frame[o].actualToolName = remote
                             /\ frame[o].accessCheck
                                   = Some(checkToolAccess(policyConfig, remote))
                             /\ (pc[o] = "catch" /\ frame[o].reply # None)
                                   => frame[o].error.message
                                         = callToolOutcome(remote, Val(frame[o].reply)).error.message
C26_Witness ==
    /\ pc[HostOp] = "catch"
    /\ frame[HostOp].kind = "invokeMcpTool"
    /\ frame[HostOp].toolName = "mcp_mcp_x"
    /\ frame[HostOp].actualToolName = "mcp_x"
    /\ frame[HostOp].error.message = "Tool 'mcp_x' execution failed: fetch failed"
    /\ policyConfig # None
    /\ Val(policyConfig).allowTools = <<"mcp_x">>
    /\ toolsCache # None
    /\ \E i \in 1..Len(Val(toolsCache).data) : Val(toolsCache).data[i].name = "mcp_x"

(* C27: the adapted tool keeps the remote schema's required list and, for  *)
(* each property, its description, enum, minimum, maximum, minLength and   *)
(* maxLength, also on the properties of a nested object and on the items   *)
(* of an array                                                             *)
RECURSIVE KeepsConstraints(_, _)
KeepsConstraints(prop, schema) ==
    /\ schema.description = prop.description
    /\ \A k \in DOMAIN prop \cap {"enum", "minimum", "maximum", "minLength", "maxLength"} :
          k \in DOMAIN schema /\ schema[k] = prop[k]
    /\ "items" \in DOMAIN prop
          => ("items" \in DOMAIN schema /\ KeepsConstraints(prop.items, schema.items))
    /\ "properties" \in DOMAIN prop
          => /\ "properties" \in DOMAIN schema
             /\ Len(schema.properties) = Len(prop.properties)
             /\ \A i \in 1..Len(prop.properties) :
                   KeepsConstraints(prop.properties[i].prop, schema.properties[i].schema)

C27_ConstraintsKept ==
    \A o \in Ops :
        (/\ frame[o].kind = "getMcpTools"
         /\ Returned(o)
         /\ frame[o].tools # None
         /\ Len(Val(ret[o]).tools) = Len(Val(frame[o].tools)))
            => \A i \in 1..Len(Val(frame[o].tools)) :
                  LET remote == Val(frame[o].tools)[i].inputSchema
                      adapted == Val(ret[o]).tools[i].parameters
                  IN  Val(frame[o].tools)[i].name # ""
                        => /\ adapted.required
                                 = (IF remote.required = <<>> THEN None
                                    ELSE Some(remote.required))
                           /\ Len(adapted.properties) = Len(remote.properties)
                           /\ \A j \in 1..Len(remote.properties) :
                                 /\ adapted.properties[j].key = remote.properties[j].key
                                 /\ KeepsConstraints(remote.properties[j].prop,
                                                     adapted.properties[j].schema)

(* C28: validateConfig reports every violated rule at once: for an enabled *)
(* partial config the errors list has one entry per violated rule          *)
(* (endpoint, timeout of at least 1000 ms, ceiling of at least 1 KB),      *)
(* valid is true exactly when the list is empty, and a config whose        *)
(* enabled is not set is always valid                                      *)
Validated(o) == frame[o].kind = "validateConfig" /\ Returned(o)
EndpointViolated(config) ==
    \/ config.serverUrl = None
    \/ Val(config.serverUrl) = ""
    \/ ~isValidUrl(Val(config.serverUrl))
TimeoutViolated(config) == config.timeoutMs # None /\ Val(config.timeoutMs) < 1000
CeilingViolated(config) == config.maxArgChars # None /\ Val(config.maxArgChars) < 1
Count(violated) == IF violated THEN 1 ELSE 0

C28_EveryViolationReported ==
    \A o \in Ops :
        Validated(o)
           => LET config == Val(frame[o].config)
                  result == Val(ret[o])
              IN  /\ result.valid = (result.errors = <<>>)
                  /\ config.enabled # Some(TRUE) => result.valid
                  /\ config.enabled = Some(TRUE)
                        => Len(result.errors)
                              = Count(EndpointViolated(config))
                                  + Count(TimeoutViolated(config))
                                  + Count(CeilingViolated(config))

(* C29: when enabled is set, validateConfig rejects every supplied timeout *)
(* below 1000 ms and every supplied argument ceiling below 1 KB, the value *)
(* 0 included, and rejects an empty or non-HTTP/HTTPS endpoint URL         *)
C29_LimitsRejected ==
    \A o \in Ops :
        (Validated(o) /\ Val(frame[o].config).enabled = Some(TRUE))
           => LET config == Val(frame[o].config)
                  result == Val(ret[o])
              IN  /\ TimeoutViolated(config)
                        => (~result.valid
                            /\ Includes(result.errors, "Timeout must be at least 1000ms"))
                  /\ CeilingViolated(config)
                        => (~result.valid
                            /\ Includes(result.errors, "Max argument size must be at least 1KB"))
                  /\ EndpointViolated(config) => ~result.valid

(* C30: two overlapping getMcpTools calls that both miss the cache may     *)
(* both write it; each write replaces the entry by exactly the list that   *)
(* call discovered, so the remaining entry is the later write and never a  *)
(* mixture, and each call returns the adaptation of its own list           *)
Writes(o) == frame[o].kind = "getMcpTools" /\ pc[o] = "listed" /\ pc'[o] = "done"
C30_LastWriteWins ==
    [][/\ \A o \in Ops :
             Writes(o)
                => /\ toolsCache' = Some([data |-> Val(frame[o].tools),
                                          timestamp |-> now, ttl |-> defaultTtlMs])
                   /\ ret'[o] = Some([tools |-> MapTools(Val(frame[o].tools))])
       /\ toolsCache' # toolsCache
             => \/ \E o \in Ops : Writes(o)
                \/ toolsCache' = None]_vars
C30_Witness ==
    /\ \A o \in Ops :
          /\ frame[o].kind = "getMcpTools"
          /\ pc[o] = "done"
          /\ Includes(events[o], "tools/list")
          /\ Includes(events[o], "setTools")
          /\ ret[o] = Some([tools |-> MapTools(Val(frame[o].tools))])
    /\ frame[1].tools # frame[2].tools
    /\ toolsCache # None
    /\ Val(toolsCache).data = Val(frame[2].tools)

(* C31: overlapping host operations share nothing but the tool cache: an   *)
(* operation whose connect succeeded and that has not disconnected yet     *)
(* sees a ready client that is the session it opened itself, whatever the  *)
(* other operation connected or disconnected meanwhile                     *)
HoldsSession(o) ==
    /\ frame[o].kind \in {"getMcpTools", "invokeMcpTool"}
    /\ pc[o] = "connected"
C31_SessionsIsolated ==
    \A o \in Ops :
        HoldsSession(o) => (mcpClient.isInitialized /\ mcpClient.client = o)

(* C32: every SDK client created by connect is closed: once all operations *)
(* have returned, under any interleaving of getMcpTools, invokeMcpTool and *)
(* testMcp, no client that was opened is still open                        *)
C32_NoSessionLeftOpen == Quiet => sdkOpen = {}

(* C33: a refresh is not undone by a discovery that was in flight when it  *)
(* was called: a getMcpTools call that starts after the refresh is not     *)
(* served from the cache the list that earlier discovery obtained          *)
WroteAcrossRefresh(p) ==
    /\ frame[p].kind = "getMcpTools"
    /\ Returned(p)
    /\ Includes(events[p], "refreshed")
    /\ Includes(events[p], "setTools")
ServedFromCache(o) ==
    /\ frame[o].kind = "getMcpTools"
    /\ Returned(o)
    /\ events[o] = <<"getTools">>
C33_RefreshNotUndone ==
    \A o \in Ops :
        (AfterRefresh(o) /\ ServedFromCache(o))
           => ~\E p \in Ops \ {o} :
                  /\ WroteAcrossRefresh(p)
                  /\ ret[o] = Some([tools |-> MapTools(Val(frame[p].tools))])

(* C34: the list getMcpTools(config) returns derives from a discovery made *)
(* against config.serverUrl: after the endpoint in the settings changed,   *)
(* getMcpTools does not return the tools cached from the previous server   *)
C34_ToolsOfConfiguredServer ==
    \A o \in Ops :
        (/\ frame[o].kind = "getMcpTools"
         /\ Returned(o)
         /\ Val(ret[o]).tools # <<>>)
            => Val(ret[o]).tools
                  = MapTools(McpToolsOf(ServerTools(Val(frame[o].config).serverUrl)))

(* C35: the schema adapter is total and keeps positions: getMcpTools       *)
(* returns one adapted entry per raw entry of the tools array; a malformed *)
(* descriptor (not an object, or without a name) yields a placeholder      *)
(* whose name holds its index, so two malformed descriptors at different   *)
(* positions never get the same adapted name                               *)
Malformed(tool) == tool.json # "object" \/ tool.name = ""
C35_PlaceholderPerPosition ==
    \A o \in Ops :
        (/\ frame[o].kind = "getMcpTools"
         /\ Returned(o)
         /\ frame[o].reply # None
         /\ Val(frame[o].reply).kind = "http"
         /\ Val(frame[o].reply).ok
         /\ Val(frame[o].reply).contentType = "application/json")
            => LET raw == Val(frame[o].reply).tools
                   adapted == Val(ret[o]).tools
               IN  /\ Len(adapted) = Len(raw)
                   /\ \A i \in 1..Len(raw) :
                         Malformed(raw[i])
                            => adapted[i].name = "mcp_invalid_tool_" \o ToString(i - 1)
                   /\ \A i, j \in 1..Len(raw) :
                         (i # j /\ Malformed(raw[i]) /\ Malformed(raw[j]))
                            => adapted[i].name # adapted[j].name

(* C36: disconnect is idempotent and never raises: from any state of the   *)
(* session, also when the close of the SDK client fails, it ends with      *)
(* client, transport and config cleared and the session not ready; a       *)
(* second call changes nothing; the failure of close is swallowed and the  *)
(* error its caller is cleaning up after stays the caller's error          *)
DisconnectStep(o) ==
    /\ frame'[o].kind = "disconnect"
    /\ <<pc[o], frame[o], events[o], ret[o]>> # <<pc'[o], frame'[o], events'[o], ret'[o]>>
C36_DisconnectIdempotent ==
    [][\A o \in Ops :
          DisconnectStep(o)
             => /\ mcpClient' = Disconnected
                /\ sdkOpen' = sdkOpen \ {mcpClient.client}
                /\ ret'[o] = Some([call |-> "disconnect"])
                /\ pc'[o] = "done"
                /\ frame'[o].error = frame[o].error
                /\ mcpClient = Disconnected
                      => (sdkOpen' = sdkOpen /\ events'[o] = <<"disconnect">>)
                /\ disconnect(mcpClient') = [mcpClient |-> mcpClient', closed |-> {}]]_vars
C36_Witness ==
    \E o \in Ops :
       /\ frame[o].kind = "disconnect"
       /\ frame[o].error = createError("InternalError", "handshake failed")
       /\ events[o] = <<"disconnect", "close", "close rejected">>
       /\ ret[o] = Some([call |-> "disconnect"])
       /\ mcpClient = Disconnected

(* C37: setTools(list, ttl) replaces the whole entry with the given list,  *)
(* the current timestamp and exactly the supplied ttl whenever a ttl is    *)
(* supplied, 0 included; the five-minute default is used only when the ttl *)
(* is left out                                                             *)
C37_SuppliedTtlStored ==
    [][\A tools \in CacheLists, ttlMs \in Ttls :
          CacheSetTools(HostOp, tools, ttlMs)
             => toolsCache' = Some([data |-> tools,
                                    timestamp |-> now,
                                    ttl |-> IF ttlMs = None THEN defaultTtlMs
                                            ELSE Val(ttlMs)])]_vars

====
